---- MODULE Spec2Model ----
(***************************************************************************)
(* Model of the rate-limited enrichment-and-cache pipeline of main.py:     *)
(* the usage ledger (api_usage/rapidapi.json), the metrics client          *)
(* get_audio_features_by_spotify_id, the normalizer normalize_features and *)
(* the "Show Top Tracks" loop that caches tracks/{track_id}.json.          *)
(*                                                                         *)
(* Python strings that the code parses are sequences of one-character      *)
(* strings; a dict is a function whose DOMAIN is its key set.  Months      *)
(* ("%Y-%m" strings, only ever compared with !=) are month numbers.        *)
(* The blob store is assumed to answer every request (storage failures are *)
(* not modelled).                                                          *)
(***************************************************************************)
EXTENDS Integers, Sequences, FiniteSets, TLC

(* ------------------------------ constants ------------------------------ *)

MONTHLY_LIMIT == 5000

n == 25

(* ------------------------------- bounds -------------------------------- *)

\* tracks 1..MaxCold are not in the cache initially
MaxCold == 2

\* the same, where the runs of two sessions interleave
MaxColdConcurrent == 1

\* lengths of the top-track lists shorter than n
MaxShort == 1

\* number of "Show Top Tracks" clicks
MaxRuns == 2

\* months the wall clock runs through
MaxMonth == 2

\* length of the loudness strings fed to normalize_features
MaxStrLen == 5

(* ------------------------- Python string helpers ----------------------- *)

Digits == {"0", "1", "2", "3", "4", "5", "6", "7", "8", "9"}

DigitVal(c) ==
  CASE c = "0" -> 0 [] c = "1" -> 1 [] c = "2" -> 2 [] c = "3" -> 3
    [] c = "4" -> 4 [] c = "5" -> 5 [] c = "6" -> 6 [] c = "7" -> 7
    [] c = "8" -> 8 [] c = "9" -> 9

\* s[from..] as a sequence
Drop(s, k) == SubSeq(s, k + 1, Len(s))

StartsWith(s, pat) ==
  /\ Len(s) >= Len(pat)
  /\ SubSeq(s, 1, Len(pat)) = pat

\* str.replace(old, "") : every non-overlapping occurrence, left to right,
\* the result is not scanned again
RECURSIVE str_replace(_, _)
str_replace(s, old) ==
  IF s = <<>> THEN <<>>
  ELSE IF StartsWith(s, old) THEN str_replace(Drop(s, Len(old)), old)
  ELSE <<s[1]>> \o str_replace(Drop(s, 1), old)

\* str.split(sep) for a one-character separator: the list of pieces
RECURSIVE str_split(_, _)
str_split(s, sep) ==
  IF \A k \in 1..Len(s) : s[k] # sep THEN <<s>>
  ELSE LET k == CHOOSE j \in 1..Len(s) :
                  /\ s[j] = sep
                  /\ \A h \in 1..(j - 1) : s[h] # sep
       IN <<SubSeq(s, 1, k - 1)>> \o str_split(Drop(s, k), sep)

\* str.strip() as int() applies it (blanks only in this alphabet)
RECURSIVE str_strip(_)
str_strip(s) ==
  IF s = <<>> THEN s
  ELSE IF s[1] = " " THEN str_strip(Drop(s, 1))
  ELSE IF s[Len(s)] = " " THEN str_strip(SubSeq(s, 1, Len(s) - 1))
  ELSE s

RECURSIVE DigitsValue(_)
DigitsValue(ds) ==
  IF ds = <<>> THEN 0
  ELSE 10 * DigitsValue(SubSeq(ds, 1, Len(ds) - 1)) + DigitVal(ds[Len(ds)])

\* int(s): surrounding blanks ignored, optional sign, then one or more
\* digits; anything else raises ValueError
int(s) ==
  LET t    == str_strip(s)
      sgn  == t # <<>> /\ t[1] \in {"-", "+"}
      body == IF sgn THEN Drop(t, 1) ELSE t
      good == body # <<>> /\ \A k \in 1..Len(body) : body[k] \in Digits
  IN IF good
     THEN [ok |-> TRUE,
           val |-> IF sgn /\ t[1] = "-" THEN 0 - DigitsValue(body)
                   ELSE DigitsValue(body)]
     ELSE [ok |-> FALSE, val |-> 0]

(* ------------------------- normalize_features -------------------------- *)

PassThroughKeys ==
  {"key", "mode", "camelot", "tempo", "popularity", "energy", "danceability",
   "happiness", "acousticness", "instrumentalness", "liveness", "speechiness"}

DB_SUFFIX == <<" ", "d", "B">>

Raised(e) == [error |-> e, duration_seconds |-> 0, loudness_db |-> 0,
              copied |-> {}]

\* variant of line 155 that insists on the suffix
loudness_db_suffix_only(loudness) ==
  IF Len(loudness) >= 3
       /\ SubSeq(loudness, Len(loudness) - 2, Len(loudness)) = DB_SUFFIX
  THEN int(SubSeq(loudness, 1, Len(loudness) - 3))
  ELSE [ok |-> FALSE, val |-> 0]

\* the value of the expression on line 155, or ValueError
loudness_db(loudness) == int(str_replace(loudness, DB_SUFFIX))

normalize_features(api_data) ==
  IF "duration" \notin DOMAIN api_data THEN Raised("KeyError")
  ELSE LET parts == str_split(api_data["duration"], ":") IN
    IF Len(parts) # 2 THEN Raised("ValueError")
    ELSE LET minutes == int(parts[1])
             seconds == int(parts[2]) IN
      IF ~minutes.ok \/ ~seconds.ok THEN Raised("ValueError")
      ELSE IF "loudness" \notin DOMAIN api_data THEN Raised("KeyError")
      ELSE LET ldb == loudness_db(api_data["loudness"]) IN
        IF ~ldb.ok THEN Raised("ValueError")
        ELSE IF ~(PassThroughKeys \subseteq DOMAIN api_data)
        THEN Raised("KeyError")
        ELSE [error |-> "none",
              duration_seconds |-> minutes.val * 60 + seconds.val,
              loudness_db |-> ldb.val,
              copied |-> {<<k, api_data[k]>> : k \in PassThroughKeys}]

(* ------------------------------ the state ------------------------------ *)

Sessions == {1, 2}

AllTracks == 1..n

VARIABLES
  usage_blob,     \* api_usage/rapidapi.json : [month, calls_made]
  bucket,         \* tracks/{track_id}.json, per track id
  current_month,  \* datetime.now().strftime("%Y-%m")
  pc,             \* per session: where its script run stands
  top_tracks,     \* per session: items of current_user_top_tracks
  i,              \* per session: loop index of "for i in range(n)"
  usage_data,     \* per session: the local usage_data of the pending call
  response,       \* per session: the 2xx response of the pending call
  analysis,       \* per session: the dict the call returned
  outcomes,       \* per session: what each finished iteration reported
  crash,          \* per session: the exception that ended the run
  requested,      \* per session: requests.get was issued for its last track
  ok_calls,       \* 2xx responses received in the current month
  total_ok,       \* 2xx responses received so far
  usage_writes,   \* uploads of the usage blob so far
  blob_writes,    \* per track id: uploads of its blob so far
  month_start,    \* calls_made in effect when the current month began
  month_clean,    \* no call was in flight when the current month began
  at_call,        \* per session: usage_blob as the pending call found it
  runs,           \* clicks on "Show Top Tracks" so far
  run_start,      \* per session: uncached tracks and uploads at its click
  norm_in,        \* argument of a stand-alone normalize_features call
  norm_out        \* its result

vars == <<usage_blob, bucket, current_month, pc, top_tracks, i, usage_data,
          response, analysis, outcomes, crash, requested, ok_calls, total_ok,
          usage_writes, blob_writes, month_start, month_clean, at_call, runs,
          run_start, norm_in, norm_out>>

pipe_vars == <<usage_blob, bucket, current_month, pc, top_tracks, i,
               usage_data, response, analysis, outcomes, crash, requested,
               ok_calls, total_ok, usage_writes, blob_writes, month_start,
               month_clean, at_call, runs, run_start>>

(* ------------------------------ the inputs ----------------------------- *)

Str_3_45 == <<"3", ":", "4", "5">>

Str_m7dB == <<"-", "7", " ", "d", "B">>

\* a well-formed response body of the track-analysis endpoint
GoodData ==
  [k \in PassThroughKeys \cup {"duration", "loudness"} |->
     IF k = "duration" THEN Str_3_45
     ELSE IF k = "loudness" THEN Str_m7dB
     ELSE <<"1">>]

Without(d, key) == [k \in (DOMAIN d) \ {key} |-> d[k]]

EmptyData == [k \in {} |-> <<>>]

\* what response.json() can be asked to decode
Bodies ==
  { [json |-> TRUE,  data |-> GoodData],
    [json |-> TRUE,  data |-> Without(GoodData, "tempo")],
    [json |-> TRUE,  data |-> [GoodData EXCEPT !["loudness"] = <<"-", "7">>]],
    [json |-> TRUE,  data |-> EmptyData],
    [json |-> FALSE, data |-> EmptyData] }

\* requests.get / raise_for_status failures, all RequestException subclasses
RequestExceptions == {"ConnectionError", "Timeout", "HTTPError", "HTTPError429"}

Track(t) == [uri |-> <<"spotify", "track", t>>]

\* track["uri"].split(":")[-1]
track_id(track) == track.uri[Len(track.uri)]

\* a user with k top tracks: tracks 1..k, optionally with the first two in
\* the other order
ShortItems(k, swapped) ==
  [j \in 1..k |-> Track(IF swapped /\ j <= 2 THEN 3 - j ELSE j)]

\* a user with n top tracks: tracks MaxCold+1..n, then 1..MaxCold, optionally
\* with the last two in the other order
FullItems(swapped) ==
  [j \in 1..n |->
     Track(IF swapped /\ j >= n - 1
           THEN ((((2 * n - 1) - j) + MaxCold - 1) % n) + 1
           ELSE ((j + MaxCold - 1) % n) + 1)]

\* what current_user_top_tracks(limit=n) can return: at most n items
TrackLists ==
  {ShortItems(k, FALSE) : k \in 0..MaxShort}
    \cup {ShortItems(k, TRUE) : k \in 2..MaxShort}
    \cup {FullItems(FALSE), FullItems(TRUE)}

NoBlob == [exists |-> FALSE, track_id |-> 0, uri |-> <<>>,
           duration_seconds |-> 0, loudness_db |-> 0]

TrackRecord(track, features) ==
  [exists |-> TRUE, track_id |-> track_id(track), uri |-> track.uri,
   duration_seconds |-> features.duration_seconds,
   loudness_db |-> features.loudness_db]

NoData == [json |-> FALSE, data |-> EmptyData]

NoUsage == [month |-> 0, calls_made |-> 0]

(* ------------------------------- Init ---------------------------------- *)

\* The script has run before: the usage blob exists (lines 35-41 create it)
\* and holds the current month and a count below the limit; every track is
\* cached except the first maxcold.
Start(maxcold, calls) ==
  /\ current_month = 1
  /\ usage_blob = [month |-> 1, calls_made |-> calls]
  /\ bucket = [t \in AllTracks |->
                 IF t \in 1..maxcold THEN NoBlob
                 ELSE TrackRecord(Track(t), normalize_features(GoodData))]
  /\ pc = [p \in Sessions |-> "idle"]
  /\ top_tracks = [p \in Sessions |-> <<>>]
  /\ i = [p \in Sessions |-> 0]
  /\ usage_data = [p \in Sessions |-> NoUsage]
  /\ response = [p \in Sessions |-> NoData]
  /\ analysis = [p \in Sessions |-> EmptyData]
  /\ outcomes = [p \in Sessions |-> <<>>]
  /\ crash = [p \in Sessions |-> "none"]
  /\ requested = [p \in Sessions |-> FALSE]
  /\ ok_calls = 0
  /\ total_ok = 0
  /\ usage_writes = 0
  /\ blob_writes = [t \in AllTracks |-> 0]
  /\ month_start = usage_blob.calls_made
  /\ month_clean = TRUE
  /\ at_call = [p \in Sessions |-> NoUsage]
  /\ runs = 0
  /\ run_start = [p \in Sessions |-> [cold |-> {}, uploads |-> 0]]
  /\ norm_in = EmptyData
  /\ norm_out = Raised("pending")

\* two more calls exhaust the month
Init == Start(MaxCold, MONTHLY_LIMIT - 2)

\* one more call exhausts the month
InitConcurrent == Start(MaxColdConcurrent, MONTHLY_LIMIT - 1)

(* ------------------------------ helpers -------------------------------- *)

Resting == {"idle", "done", "crashed"}

\* uploads of track blobs so far, over the track ids in ts
RECURSIVE Uploads(_, _)
Uploads(writes, ts) ==
  IF ts = {} THEN 0
  ELSE LET t == CHOOSE x \in ts : TRUE
       IN writes[t] + Uploads(writes, ts \ {t})

\* lines 121-126: the stored record, or its reset value in a new month
LoadUsage(stored, now) ==
  IF stored.month # now THEN [month |-> now, calls_made |-> 0] ELSE stored

\* variant of line 128 with > for >=
QuotaReached_gt(usage) == usage.calls_made > MONTHLY_LIMIT

\* line 128
QuotaReached(usage) == usage.calls_made >= MONTHLY_LIMIT

\* the locals of get_audio_features_by_spotify_id and the loop body go out
\* of scope
Forget(p) ==
  /\ usage_data' = [usage_data EXCEPT ![p] = NoUsage]
  /\ at_call' = [at_call EXCEPT ![p] = NoUsage]
  /\ response' = [response EXCEPT ![p] = NoData]
  /\ analysis' = [analysis EXCEPT ![p] = EmptyData]

Report(p, kind) ==
  Append(outcomes[p],
         [track_id |-> track_id(top_tracks[p][i[p] + 1]), kind |-> kind])

\* the iteration of session p is over; "continue" with the next index
NextTrack(p, kind) ==
  /\ outcomes' = [outcomes EXCEPT ![p] = Report(p, kind)]
  /\ i' = [i EXCEPT ![p] = @ + 1]
  /\ pc' = [pc EXCEPT ![p] = "loop"]
  /\ Forget(p)

InLoopBody(p) ==
  /\ pc[p] = "loop"
  /\ i[p] < n
  /\ i[p] < Len(top_tracks[p])

CurrentId(p) == track_id(top_tracks[p][i[p] + 1])

(* ------------------------------ actions -------------------------------- *)

\* the wall clock passes into the next month
Tick ==
  /\ current_month < MaxMonth
  /\ current_month' = current_month + 1
  /\ month_start' = LoadUsage(usage_blob, current_month + 1).calls_made
  /\ ok_calls' = 0
  /\ month_clean' = (\A p \in Sessions : pc[p] \notin {"request", "charge"})
  /\ UNCHANGED <<usage_blob, bucket, pc, top_tracks, i, usage_data, response,
                 analysis, outcomes, crash, requested, total_ok, usage_writes,
                 blob_writes, at_call, runs, run_start, norm_in,
                 norm_out>>

\* lines 236-241: the script reruns, fetches the top tracks, the button is
\* pressed and the loop starts
ShowTopTracks(p, items) ==
  /\ pc[p] \in Resting
  /\ runs < MaxRuns
  /\ runs' = runs + 1
  /\ top_tracks' = [top_tracks EXCEPT ![p] = items]
  /\ i' = [i EXCEPT ![p] = 0]
  /\ outcomes' = [outcomes EXCEPT ![p] = <<>>]
  /\ crash' = [crash EXCEPT ![p] = "none"]
  /\ requested' = [requested EXCEPT ![p] = FALSE]
  /\ pc' = [pc EXCEPT ![p] = "loop"]
  /\ run_start' = [run_start EXCEPT ![p] =
                     [cold |-> {track_id(items[j]) : j \in 1..Len(items)}
                                 \ {t \in AllTracks : bucket[t].exists},
                      uploads |-> Uploads(blob_writes, AllTracks)]]
  /\ UNCHANGED <<usage_blob, bucket, current_month, usage_data, response,
                 analysis, ok_calls, total_ok, usage_writes,
                 blob_writes, month_start, month_clean, at_call, norm_in,
                 norm_out>>

\* line 241: range(n) is exhausted; line 272
LoopDone(p) ==
  /\ pc[p] = "loop"
  /\ i[p] = n
  /\ pc' = [pc EXCEPT ![p] = "done"]
  /\ UNCHANGED <<usage_blob, bucket, current_month, top_tracks, i, usage_data,
                 response, analysis, outcomes, crash, requested, ok_calls,
                 total_ok, usage_writes, blob_writes, month_start, month_clean,
                 at_call, runs, run_start,
                 norm_in, norm_out>>

\* line 242: top_tracks[i] with i beyond the list raises IndexError
LoopIndexError(p) ==
  /\ pc[p] = "loop"
  /\ i[p] < n
  /\ i[p] >= Len(top_tracks[p])
  /\ pc' = [pc EXCEPT ![p] = "crashed"]
  /\ crash' = [crash EXCEPT ![p] = "IndexError"]
  /\ UNCHANGED <<usage_blob, bucket, current_month, top_tracks, i, usage_data,
                 response, analysis, outcomes, requested, ok_calls, total_ok,
                 usage_writes, blob_writes, month_start, month_clean, at_call,
                 runs, run_start,
                 norm_in, norm_out>>

\* variant of line 251 that fetches a cached track
CacheHit_inverted(p) ==
  /\ InLoopBody(p)
  /\ bucket[CurrentId(p)].exists
  /\ pc' = [pc EXCEPT ![p] = "fetch"]
  /\ UNCHANGED <<usage_blob, bucket, current_month, top_tracks, i, usage_data,
                 response, analysis, outcomes, crash, requested, ok_calls,
                 total_ok, usage_writes, blob_writes, month_start, month_clean,
                 at_call, runs, run_start, norm_in, norm_out>>

\* lines 246-253: the blob exists, skip the track
CacheHit(p) ==
  /\ InLoopBody(p)
  /\ bucket[CurrentId(p)].exists
  /\ NextTrack(p, "AlreadyCached")
  /\ requested' = [requested EXCEPT ![p] = FALSE]
  /\ UNCHANGED <<usage_blob, bucket, current_month, top_tracks, crash,
                 ok_calls, total_ok, usage_writes, blob_writes,
                 month_start, month_clean, runs, run_start,
                 norm_in, norm_out>>

\* variant of line 251 that does not look at blob.exists()
CacheMiss_unchecked(p) ==
  /\ InLoopBody(p)
  /\ pc' = [pc EXCEPT ![p] = "fetch"]
  /\ UNCHANGED <<usage_blob, bucket, current_month, top_tracks, i, usage_data,
                 response, analysis, outcomes, crash, requested, ok_calls,
                 total_ok, usage_writes, blob_writes, month_start, month_clean,
                 at_call, runs, run_start, norm_in, norm_out>>

\* lines 246-258: no blob, call get_audio_features_by_spotify_id
CacheMiss(p) ==
  /\ InLoopBody(p)
  /\ ~bucket[CurrentId(p)].exists
  /\ pc' = [pc EXCEPT ![p] = "fetch"]
  /\ UNCHANGED <<usage_blob, bucket, current_month, top_tracks, i, usage_data,
                 response, analysis, outcomes, crash, requested, ok_calls,
                 total_ok, usage_writes, blob_writes, month_start, month_clean,
                 at_call, runs, run_start,
                 norm_in, norm_out>>

\* lines 121-130: the usage in effect has reached the limit, return None;
\* line 259 then skips the track
QuotaExhausted(p) ==
  /\ pc[p] = "fetch"
  /\ QuotaReached(LoadUsage(usage_blob, current_month))
  /\ NextTrack(p, "QuotaExhausted")
  /\ requested' = [requested EXCEPT ![p] = FALSE]
  /\ UNCHANGED <<usage_blob, bucket, current_month, top_tracks, crash,
                 ok_calls, total_ok, usage_writes, blob_writes,
                 month_start, month_clean, runs, run_start,
                 norm_in, norm_out>>

\* variant of lines 124-126 that uploads the reset record at once
BeginRequest_persists(p) ==
  /\ pc[p] = "fetch"
  /\ ~QuotaReached(LoadUsage(usage_blob, current_month))
  /\ usage_data' = [usage_data EXCEPT ![p] = LoadUsage(usage_blob, current_month)]
  /\ usage_blob' = LoadUsage(usage_blob, current_month)
  /\ at_call' = [at_call EXCEPT ![p] = usage_blob]
  /\ pc' = [pc EXCEPT ![p] = "request"]
  /\ UNCHANGED <<bucket, current_month, top_tracks, i, response,
                 analysis, outcomes, crash, requested, ok_calls, total_ok,
                 usage_writes, blob_writes, month_start, month_clean, runs,
                 run_start, norm_in, norm_out>>

\* lines 121-139: quota is left, go on to the request
BeginRequest(p) ==
  /\ pc[p] = "fetch"
  /\ ~QuotaReached(LoadUsage(usage_blob, current_month))
  /\ usage_data' = [usage_data EXCEPT ![p] = LoadUsage(usage_blob, current_month)]
  /\ at_call' = [at_call EXCEPT ![p] = usage_blob]
  /\ pc' = [pc EXCEPT ![p] = "request"]
  /\ UNCHANGED <<usage_blob, bucket, current_month, top_tracks, i, response,
                 analysis, outcomes, crash, requested, ok_calls, total_ok,
                 usage_writes, blob_writes, month_start, month_clean, runs, run_start,
                 norm_in, norm_out>>

\* variant with lines 144-145 ahead of the request
RequestFails_charged(p, exc) ==
  /\ pc[p] = "request"
  /\ exc \in RequestExceptions
  /\ requested' = [requested EXCEPT ![p] = TRUE]
  /\ usage_blob' = [usage_data[p] EXCEPT !.calls_made = @ + 1]
  /\ usage_writes' = usage_writes + 1
  /\ NextTrack(p, "FetchFailed")
  /\ UNCHANGED <<bucket, current_month, top_tracks, crash,
                 ok_calls, total_ok, blob_writes, month_start,
                 month_clean, runs, run_start, norm_in, norm_out>>

\* lines 141-142 raise, lines 148-150 return None; line 259 skips the track
RequestFails(p, exc) ==
  /\ pc[p] = "request"
  /\ exc \in RequestExceptions
  /\ requested' = [requested EXCEPT ![p] = TRUE]
  /\ NextTrack(p, "FetchFailed")
  /\ UNCHANGED <<usage_blob, bucket, current_month, top_tracks, crash,
                 ok_calls, total_ok, usage_writes, blob_writes, month_start,
                 month_clean, runs, run_start,
                 norm_in, norm_out>>

\* lines 141-142 pass: a 2xx response with some body
RequestSucceeds(p, body) ==
  /\ pc[p] = "request"
  /\ requested' = [requested EXCEPT ![p] = TRUE]
  /\ ok_calls' = ok_calls + 1
  /\ total_ok' = total_ok + 1
  /\ response' = [response EXCEPT ![p] = body]
  /\ pc' = [pc EXCEPT ![p] = "charge"]
  /\ UNCHANGED <<usage_blob, bucket, current_month, top_tracks, i, usage_data,
                 analysis, outcomes, crash, usage_writes, blob_writes,
                 month_start, month_clean, at_call, runs, run_start,
                 norm_in, norm_out>>

\* variant of line 144 that counts a call twice
Charged_twice(usage, stored) == [usage EXCEPT !.calls_made = @ + 2]

\* variant of lines 144-145 that increments what is stored at upload time
Charged_reread(usage, stored) ==
  [usage EXCEPT !.calls_made = LoadUsage(stored, usage.month).calls_made + 1]

\* lines 144-145: the record uploaded, whatever is stored by now
Charged(usage, stored) == [usage EXCEPT !.calls_made = @ + 1]

\* lines 144-146: count the call, upload the usage blob, decode the body.
\* A body that is not JSON raises requests' JSONDecodeError, which is a
\* RequestException (requests 2.27 and later): lines 148-150 return None,
\* after the count was uploaded.  Line 259 skips the track
\* for None and for an empty (falsy) dict.
UpdateUsage(p) ==
  /\ pc[p] = "charge"
  /\ usage_blob' = Charged(usage_data[p], usage_blob)
  /\ usage_writes' = usage_writes + 1
  /\ IF ~response[p].json
     THEN NextTrack(p, "FetchFailed")
     ELSE IF DOMAIN response[p].data = {}
     THEN NextTrack(p, "NoAnalysis")
     ELSE /\ analysis' = [analysis EXCEPT ![p] = response[p].data]
          /\ usage_data' = [usage_data EXCEPT ![p] = NoUsage]
          /\ at_call' = [at_call EXCEPT ![p] = NoUsage]
          /\ response' = [response EXCEPT ![p] = NoData]
          /\ pc' = [pc EXCEPT ![p] = "persist"]
          /\ UNCHANGED <<i, outcomes>>
  /\ UNCHANGED <<bucket, current_month, top_tracks, crash, requested, ok_calls,
                 total_ok, blob_writes, month_start, month_clean, runs, run_start,
                 norm_in, norm_out>>

\* line 260: normalize_features raises; nothing catches it, the run ends
NormalizeRaises(p) ==
  /\ pc[p] = "persist"
  /\ normalize_features(analysis[p]).error # "none"
  /\ pc' = [pc EXCEPT ![p] = "crashed"]
  /\ crash' = [crash EXCEPT ![p] = normalize_features(analysis[p]).error]
  /\ Forget(p)
  /\ UNCHANGED <<usage_blob, bucket, current_month, top_tracks, i, outcomes,
                 requested, ok_calls, total_ok, usage_writes, blob_writes,
                 month_start, month_clean, runs, run_start,
                 norm_in, norm_out>>

\* lines 260-270: build the payload and upload tracks/{track_id}.json
UploadTrack(p) ==
  /\ pc[p] = "persist"
  /\ normalize_features(analysis[p]).error = "none"
  /\ bucket' = [bucket EXCEPT ![CurrentId(p)] =
                  TrackRecord(top_tracks[p][i[p] + 1],
                              normalize_features(analysis[p]))]
  /\ blob_writes' = [blob_writes EXCEPT ![CurrentId(p)] = @ + 1]
  /\ NextTrack(p, "Enriched")
  /\ UNCHANGED <<usage_blob, current_month, top_tracks, crash, requested,
                 ok_calls, total_ok, usage_writes, month_start, month_clean,
                 runs, run_start,
                 norm_in, norm_out>>

(* --------------------------- specifications ---------------------------- *)

Step(p) ==
  \/ LoopDone(p)
  \/ LoopIndexError(p)
  \/ CacheHit(p)
  \/ CacheMiss(p)
  \/ QuotaExhausted(p)
  \/ BeginRequest(p)
  \/ \E exc \in RequestExceptions : RequestFails(p, exc)
  \/ \E body \in Bodies : RequestSucceeds(p, body)
  \/ UpdateUsage(p)
  \/ NormalizeRaises(p)
  \/ UploadTrack(p)

\* sequential invocation: the runs of one session follow one another
Next ==
  \/ Tick
  \/ \E items \in TrackLists : ShowTopTracks(1, items)
  \/ Step(1)

Spec == Init /\ [][Next]_vars

\* a first click in a session, whatever the other sessions are doing
FirstShowTopTracks(p, items) ==
  /\ pc[p] = "idle"
  /\ ShowTopTracks(p, items)

\* the runs of different sessions interleave
NextConcurrent ==
  \/ \E p \in Sessions : \E items \in TrackLists : FirstShowTopTracks(p, items)
  \/ \E p \in Sessions : Step(p)

SpecConcurrent == InitConcurrent /\ [][NextConcurrent]_vars

(* ------------------- normalize_features on its own --------------------- *)

LoudnessAlphabet == {"-", "7", " ", "d", "B"}

LoudnessStrings == UNION {[1..k -> LoudnessAlphabet] : k \in 0..MaxStrLen}

DurationSamples ==
  { <<"3", ":", "4", "5">>, <<"1", "2", ":", "0", "7">>, <<"3", "4", "5">>,
    <<"3", ":", "4", ":", "5">>, <<"3", ":">>, <<"x", ":", "1", "0">> }

\* raw payloads: any loudness string, a sample of durations, any one key
\* missing
NormalizeInputs ==
  {[GoodData EXCEPT !["loudness"] = l] : l \in LoudnessStrings}
    \cup {[GoodData EXCEPT !["duration"] = d] : d \in DurationSamples}
    \cup {Without(GoodData, k) : k \in DOMAIN GoodData}

InitNormalize == Start(0, 0)

\* a payload arrives
ReceivePayload(api_data) ==
  /\ norm_in = EmptyData
  /\ norm_in' = api_data
  /\ UNCHANGED <<pipe_vars, norm_out>>

\* line 260 on that payload
ApplyNormalize ==
  /\ norm_in # EmptyData
  /\ norm_out.error = "pending"
  /\ norm_out' = normalize_features(norm_in)
  /\ UNCHANGED <<pipe_vars, norm_in>>

NextNormalize ==
  \/ \E api_data \in NormalizeInputs : ReceivePayload(api_data)
  \/ ApplyNormalize

SpecNormalize == InitNormalize /\ [][NextNormalize]_vars

(* ------------------------------ properties ----------------------------- *)

\* session p takes a step
Moves(p) == <<pc[p], i[p]>> # <<pc'[p], i'[p]>>

Kinds(p) == {outcomes[p][j].kind : j \in 1..Len(outcomes[p])}

LastOutcome(p) == outcomes[p][Len(outcomes[p])]

\* calls_made in effect in month now, written out from the stored record
CallsInEffect(now) ==
  IF usage_blob.month = now THEN usage_blob.calls_made ELSE 0

\* C1: a track whose blob exists when the loop reaches it is reported
\* AlreadyCached, with no usage read or write, no request and no upload; and
\* a run that started with every track of its list cached ends with
\* AlreadyCached for every track and no upload.
C1_SkipStep ==
  \A p \in Sessions :
    (InLoopBody(p) /\ bucket[CurrentId(p)].exists /\ Moves(p)) =>
       /\ pc'[p] = "loop"
       /\ i'[p] = i[p] + 1
       /\ outcomes'[p] = Append(outcomes[p], [track_id |-> CurrentId(p),
                                              kind |-> "AlreadyCached"])
       /\ ~requested'[p]
       /\ UNCHANGED <<usage_blob, bucket, usage_writes, blob_writes>>

C1_WarmRun ==
  \A p \in Sessions :
    (pc[p] = "done" /\ run_start[p].cold = {}) =>
       /\ Len(outcomes[p]) = Len(top_tracks[p])
       /\ \A j \in 1..Len(outcomes[p]) :
            outcomes[p][j] = [track_id |-> track_id(top_tracks[p][j]),
                              kind |-> "AlreadyCached"]
       /\ Uploads(blob_writes, AllTracks) = run_start[p].uploads

C1_CachedTrackIsSkipped == [][C1_SkipStep]_vars /\ []C1_WarmRun

\* a second run over a list the first run finished caching
C1_Witness ==
  /\ runs = 2
  /\ pc[1] = "done"
  /\ run_start[1].cold = {}
  /\ \E t \in AllTracks : blob_writes[t] = 1
  /\ Kinds(1) = {"AlreadyCached"}

\* C2: when the usage in effect has calls_made >= MONTHLY_LIMIT, the call
\* returns None (the track is reported QuotaExhausted) with no request
\* issued and the stored record left as it was.
C2_QuotaStep ==
  \A p \in Sessions :
    (pc[p] = "fetch" /\ Moves(p)
       /\ CallsInEffect(current_month) >= MONTHLY_LIMIT) =>
       /\ pc'[p] = "loop"
       /\ LastOutcome(p)' = [track_id |-> CurrentId(p),
                             kind |-> "QuotaExhausted"]
       /\ ~requested'[p]
       /\ UNCHANGED <<usage_blob, usage_writes, bucket>>

C2_NoCallAtLimit == [][C2_QuotaStep]_vars

C2_Witness ==
  /\ usage_blob = [month |-> current_month, calls_made |-> MONTHLY_LIMIT]
  /\ pc[1] = "loop"
  /\ outcomes[1] # <<>>
  /\ LastOutcome(1).kind = "QuotaExhausted"

\* C3: run after run, every 2xx response raises the calls_made of its month
\* by exactly 1 with exactly one upload of the usage blob; within a month
\* the stored calls_made is its value at the start of the month plus the
\* number of 2xx responses.
C3_ChargeStep ==
  \A p \in Sessions :
    (pc[p] = "charge" /\ Moves(p)) =>
       /\ usage_writes' = usage_writes + 1
       /\ usage_blob'.month = usage_data[p].month
       /\ usage_blob'.calls_made = CallsInEffect(usage_data[p].month) + 1

C3_Counted ==
  (\A p \in Sessions : pc[p] # "charge") =>
     /\ usage_writes = total_ok
     /\ month_clean => CallsInEffect(current_month) = month_start + ok_calls

C3_ExactlyOnePerSuccess == [][C3_ChargeStep]_vars /\ []C3_Counted

C3_Witness ==
  /\ ok_calls = 2
  /\ month_clean
  /\ pc[1] = "done"
  /\ usage_blob = [month |-> current_month, calls_made |-> month_start + 2]

\* C4: when requests.get or raise_for_status fails (a transport or HTTP
\* failure) the call returns None, the track is reported FetchFailed, and
\* the stored usage record is the one the call found, untouched.
C4_FailStep ==
  \A p \in Sessions :
    (pc[p] = "request" /\ pc'[p] # "charge" /\ Moves(p)) =>
       /\ pc'[p] = "loop"
       /\ LastOutcome(p)' = [track_id |-> CurrentId(p), kind |-> "FetchFailed"]
       /\ usage_blob = at_call[p]
       /\ UNCHANGED <<usage_blob, usage_writes, bucket>>

C5_NormalizationFailureSkipsTrack ==
  \A p \in Sessions : ~(pc[p] = "crashed" /\ crash[p] \in {"KeyError", "ValueError"})

\* C6: with a stored month other than the current one, the read yields
\* {current_month, 0} in memory and writes nothing; the stored record
\* changes only when a request has succeeded, and a stale one is then
\* replaced by {current_month, 1}.
C6_StaleReadStep ==
  \A p \in Sessions :
    (pc[p] = "fetch" /\ Moves(p) /\ usage_blob.month # current_month) =>
       /\ usage_data'[p] = [month |-> current_month, calls_made |-> 0]
       /\ pc'[p] = "request"
       /\ UNCHANGED <<usage_blob, usage_writes>>

C6_ReplaceStep ==
  (usage_blob' # usage_blob) =>
     \E p \in Sessions :
       /\ pc[p] = "charge"
       /\ Moves(p)
       /\ (usage_blob.month # current_month /\ usage_data[p].month = current_month)
            => usage_blob' = [month |-> current_month, calls_made |-> 1]

C6_ResetPersistedOnSuccessOnly == [][C6_StaleReadStep /\ C6_ReplaceStep]_vars

\* a stale record that has survived a failed request is read again
C6_Witness ==
  /\ usage_blob.month # current_month
  /\ usage_writes = 0
  /\ pc[1] = "request"
  /\ usage_data[1] = [month |-> current_month, calls_made |-> 0]
  /\ outcomes[1] # <<>>
  /\ LastOutcome(1).kind = "FetchFailed"

\* C7: run after run, an existing tracks/{track_id}.json is never uploaded
\* again, changed or removed, and a blob appears only in the step that ends
\* a successful enrichment of that track; no blob is uploaded twice.
C7_BlobStep ==
  \A t \in AllTracks :
    /\ bucket[t].exists =>
         (bucket'[t] = bucket[t] /\ blob_writes'[t] = blob_writes[t])
    /\ (bucket'[t] # bucket[t] \/ blob_writes'[t] # blob_writes[t]) =>
         \E p \in Sessions :
           /\ pc[p] = "persist"
           /\ CurrentId(p) = t
           /\ normalize_features(analysis[p]).error = "none"
           /\ bucket'[t].exists
           /\ bucket'[t].track_id = t
           /\ LastOutcome(p)' = [track_id |-> t, kind |-> "Enriched"]

C7_WrittenOnce == \A t \in AllTracks : blob_writes[t] <= 1

C7_TrackRecordWrittenAtMostOnce == [][C7_BlobStep]_vars /\ []C7_WrittenOnce

\* a track enriched by the first run and skipped by the second
C7_Witness ==
  /\ runs = 2
  /\ pc[1] = "done"
  /\ \E j \in 1..Len(outcomes[1]) :
       /\ outcomes[1][j].kind = "AlreadyCached"
       /\ blob_writes[outcomes[1][j].track_id] = 1

\* C8: for a list of any length, once the loop has been through the list the
\* run is over without error, with one outcome per track in list order.
C8_EveryListHandled ==
  \A p \in Sessions :
    (pc[p] \in {"done", "crashed"} /\ i[p] = Len(top_tracks[p])) =>
       /\ pc[p] = "done"
       /\ [j \in 1..Len(outcomes[p]) |-> outcomes[p][j].track_id]
            = [j \in 1..Len(top_tracks[p]) |-> track_id(top_tracks[p][j])]

\* the loudness string ends in " dB"
HasSuffix(l) ==
  /\ Len(l) >= 3
  /\ SubSeq(l, Len(l) - 2, Len(l)) = DB_SUFFIX

\* what precedes the suffix
Remainder(l) == SubSeq(l, 1, Len(l) - 3)

\* where " dB" occurs in the loudness string
Occurrences(l) == {k \in 1..(Len(l) - 2) : SubSeq(l, k, k + 2) = DB_SUFFIX}

\* normalize_features has been applied to a payload in which only the
\* loudness can be at fault
LoudnessDecides ==
  /\ norm_out.error # "pending"
  /\ DOMAIN norm_in = DOMAIN GoodData
  /\ norm_in["duration"] = GoodData["duration"]

\* C9 as stated: "<integer> dB" yields that integer, and every loudness
\* whose suffix " dB" is absent or whose remainder is not integer-parseable
\* fails.
C9_FailsWithoutSuffix ==
  LoudnessDecides =>
    LET l == norm_in["loudness"] IN
      IF HasSuffix(l) /\ int(Remainder(l)).ok
      THEN /\ norm_out.error = "none"
           /\ norm_out.loudness_db = int(Remainder(l)).val
      ELSE norm_out.error = "ValueError"

\* C9 amended: "<integer> dB" yields that integer; a loudness that ends in
\* its only " dB" fails exactly when the remainder is not integer-parseable;
\* a loudness with no " dB" in it is not rejected for that but parsed as it
\* stands, and fails exactly when it is not integer-parseable.
C9_SuffixRemovedWherePresent ==
  LoudnessDecides =>
    LET l == norm_in["loudness"] IN
      /\ (HasSuffix(l) /\ Cardinality(Occurrences(l)) = 1) =>
           IF int(Remainder(l)).ok
           THEN /\ norm_out.error = "none"
                /\ norm_out.loudness_db = int(Remainder(l)).val
           ELSE norm_out.error = "ValueError"
      /\ (Occurrences(l) = {}) =>
           IF int(l).ok
           THEN /\ norm_out.error = "none"
                /\ norm_out.loudness_db = int(l).val
           ELSE norm_out.error = "ValueError"

\* "-7" without the suffix has been normalized to -7
C9_Witness ==
  /\ LoudnessDecides
  /\ norm_in["loudness"] = <<"-", "7">>
  /\ norm_out.error = "none"
  /\ norm_out.loudness_db = 0 - 7

\* C10: when a session uploads its count after another session has changed
\* the stored record it read, the upload is what it read plus 1 and the
\* stored calls_made does not rise, although a request succeeded; the stored
\* count never exceeds the start value plus the 2xx responses (it can only
\* under-count).
C10_LostStep ==
  \A p \in Sessions :
    (pc[p] = "charge" /\ Moves(p) /\ usage_blob # at_call[p]) =>
       /\ usage_blob'.calls_made = at_call[p].calls_made + 1
       /\ usage_blob'.calls_made <= usage_blob.calls_made

C10_NeverOver == usage_blob.calls_made <= month_start + total_ok

C10_LostUpdateUnderCounts == [][C10_LostStep]_vars /\ []C10_NeverOver

\* two sessions, one successful request and one upload each, one count
C10_Witness ==
  /\ pc[1] = "done"
  /\ pc[2] = "done"
  /\ "Enriched" \in Kinds(1) \cap Kinds(2)
  /\ total_ok = 2
  /\ usage_writes = 2
  /\ usage_blob.calls_made = month_start + 1

====
